---- MODULE Spec2Model ----
(***************************************************************************)
(* A model of inline-local-images (src/index.mjs): the engine that         *)
(* rewrites <img src> and srcset references into data: URLs.              *)
(*                                                                         *)
(* Strings are sequences of tokens.  A token is a punctuation mark the     *)
(* code splits or tests on (",", " ", ".", "/", "?", "#", ";"), a scheme   *)
(* prefix a regular expression of the code tests ("data:", "http:",        *)
(* "https:", "//", "file:"), or a word that holds none of these.  Two      *)
(* strings are equal exactly when their token sequences are equal.         *)
(***************************************************************************)
EXTENDS Integers, Sequences, FiniteSets, TLC

\* ------------------------------------------------------------------ bounds

\* The byte ceiling of the run (MAX_BYTES), kept small.
MaxBytes == 2
\* The number of <img> tags of a document.
MaxTags == 1

\* Default redirect budget of fetchRemoteBuffer.
MaxRedirects == 5

\* ------------------------------------------------------------ text helpers

RECURSIVE SplitOn(_, _)
\* String.prototype.split(d) for a one-token delimiter d.
SplitOn(s, d) ==
  IF \A i \in 1..Len(s) : s[i] # d
    THEN <<s>>
    ELSE LET k == CHOOSE i \in 1..Len(s) : s[i] = d /\ \A j \in 1..(i - 1) : s[j] # d
         IN  <<SubSeq(s, 1, k - 1)>> \o SplitOn(SubSeq(s, k + 1, Len(s)), d)

RECURSIVE Trim(_)
\* String.prototype.trim(): whitespace is the token " ".
Trim(s) ==
  IF s = <<>> THEN s
  ELSE IF Head(s) = " " THEN Trim(Tail(s))
  ELSE IF s[Len(s)] = " " THEN Trim(SubSeq(s, 1, Len(s) - 1))
  ELSE s

RECURSIVE JoinWith(_, _)
\* Array.prototype.join(sep).
JoinWith(list, sep) ==
  IF list = <<>> THEN <<>>
  ELSE IF Len(list) = 1 THEN list[1]
  ELSE list[1] \o sep \o JoinWith(Tail(list), sep)

RECURSIVE FilterNonEmpty(_)
\* Array.prototype.filter(Boolean) on a list of strings.
FilterNonEmpty(list) ==
  IF list = <<>> THEN <<>>
  ELSE IF Head(list) = <<>> THEN FilterNonEmpty(Tail(list))
  ELSE <<Head(list)>> \o FilterNonEmpty(Tail(list))

\* The index of the first token d of s, or 0 (indexOf's -1).
IndexOf(s, d) ==
  IF \A i \in 1..Len(s) : s[i] # d THEN 0
  ELSE CHOOSE i \in 1..Len(s) : s[i] = d /\ \A j \in 1..(i - 1) : s[j] # d

\* The index of the last token d of s, or 0.
LastIndexOf(s, d) ==
  IF \A i \in 1..Len(s) : s[i] # d THEN 0
  ELSE CHOOSE i \in 1..Len(s) : s[i] = d /\ \A j \in (i + 1)..Len(s) : s[j] # d

\* String.prototype.toLowerCase(), token by token.
LowerTok(c) ==
  CASE c = "PNG" -> "png"
    [] c = "GIF" -> "gif"
    [] c = "A" -> "a"
    [] c = "Logo" -> "logo"
    [] c = "DATA:" -> "data:"
    [] c = "HTTP:" -> "http:"
    [] c = "IMAGE/PNG" -> "image/png"
    [] OTHER -> c

Lower(s) == [i \in 1..Len(s) |-> LowerTok(s[i])]

\* ---------------------------------------------------------- classification

\* /^data:/i
isDataUrl(src) == src # <<>> /\ LowerTok(Head(src)) = "data:"

\* /^(https?:|\/\/)/i
isRemote(src) == src # <<>> /\ LowerTok(Head(src)) \in {"http:", "https:", "//"}

normalizeRemoteUrl(u) == IF u # <<>> /\ Head(u) = "//" THEN <<"https:">> \o u ELSE u

\* decodeURI: "%20" and "%41" are escapes it decodes, "%2F" one it keeps
\* (a reserved character), "%ZZ" one it rejects (URIError).
DecodeTok(c) ==
  CASE c = "%20" -> " "
    [] c = "%41" -> "A"
    [] OTHER -> c

decodeMaybeURI(p) ==
  IF \E i \in 1..Len(p) : p[i] = "%ZZ" THEN p
  ELSE [i \in 1..Len(p) |-> DecodeTok(p[i])]

\* A truncation at the later of the two delimiters.
stripQueryHashLater(p) ==
  LET iQ == IndexOf(p, "?")
      iH == IndexOf(p, "#")
      cut == IF iQ > iH THEN iQ ELSE iH
  IN  IF cut = 0 THEN p ELSE SubSeq(p, 1, cut - 1)

stripQueryHash(p) ==
  LET iQ == IndexOf(p, "?")
      iH == IndexOf(p, "#")
      q == IF iQ = 0 THEN Len(p) + 1 ELSE iQ
      h == IF iH = 0 THEN Len(p) + 1 ELSE iH
      cut == IF q < h THEN q ELSE h
  IN  SubSeq(p, 1, cut - 1)

\* ------------------------------------------------------------- filesystem

\* A path is [abs, segs]: segs are the segment names under the base
\* directory (abs = FALSE) or under the filesystem root (abs = TRUE).
\* The documents of the model hold no ".." segment.
BasePath(segs) == [abs |-> FALSE, segs |-> segs]

\* The bytes of a file or of a response body: n bytes, the i-th one seed + i.
Bytes(n, seed) == [i \in 1..n |-> (seed + i) % 256]

\* The files of the run: the base directory holds a.png (exactly MaxBytes
\* bytes), big.png (one byte more), secret.png (no read permission), the
\* directory images with Logo.PNG, and the directory locked with Logo.PNG,
\* which may be searched (its files can be opened) but not listed.
FsEntries ==
  { [path |-> <<>>, kind |-> "dir", size |-> 0, readable |-> TRUE, seed |-> 0],
    [path |-> << <<"a", ".", "png">> >>, kind |-> "file", size |-> MaxBytes,
     readable |-> TRUE, seed |-> 10],
    [path |-> << <<"big", ".", "png">> >>, kind |-> "file", size |-> MaxBytes + 1,
     readable |-> TRUE, seed |-> 20],
    [path |-> << <<"secret", ".", "png">> >>, kind |-> "file", size |-> 1,
     readable |-> FALSE, seed |-> 30],
    [path |-> << <<"images">> >>, kind |-> "dir", size |-> 0, readable |-> TRUE,
     seed |-> 0],
    [path |-> << <<"images">>, <<"Logo", ".", "PNG">> >>, kind |-> "file", size |-> 1,
     readable |-> TRUE, seed |-> 40],
    [path |-> << <<"locked">> >>, kind |-> "dir", size |-> 0, readable |-> FALSE,
     seed |-> 0],
    [path |-> << <<"locked">>, <<"Logo", ".", "PNG">> >>, kind |-> "file", size |-> 1,
     readable |-> TRUE, seed |-> 60] }

\* fs.existsSync
existsSync(p) == ~p.abs /\ \E e \in FsEntries : e.path = p.segs

\* fs.statSync of an existing path
statSync(p) == CHOOSE e \in FsEntries : e.path = p.segs

isDirectory(p) == existsSync(p) /\ statSync(p).kind = "dir"

\* fs.readdirSync of a directory: the names of its entries.
readdirSync(p) ==
  { e.path[Len(e.path)] : e \in { x \in FsEntries :
      Len(x.path) = Len(p.segs) + 1 /\ SubSeq(x.path, 1, Len(p.segs)) = p.segs } }

\* The segments of a path string: split at "/", empty and "." segments dropped
\* (path.resolve, path.normalize and split(/[\\/]+/).filter(Boolean)).
RECURSIVE DropDots(_)
DropDots(list) ==
  IF list = <<>> THEN <<>>
  ELSE IF Head(list) \in {<<>>, <<".">>} THEN DropDots(Tail(list))
  ELSE <<Head(list)>> \o DropDots(Tail(list))

PathSegs(text) == DropDots(SplitOn(text, "/"))

\* path.resolve(baseDir, text): an absolute text ignores the base directory.
pathResolve(text) ==
  [abs |-> text # <<>> /\ Head(text) = "/", segs |-> PathSegs(text)]

\* The path as a string, for the extension lookup.
PathText(p) == <<"/">> \o JoinWith(p.segs, <<"/">>)

\* The case-insensitive traversal of resolveLocalPath: the set of outcomes,
\* one per entry readdirSync may list first among those that match.
RECURSIVE Traverse(_, _, _)
Traverse(cur, parts, candidate) ==
  IF parts = <<>> THEN {[kind |-> "path", path |-> cur]}
  ELSE IF ~existsSync(cur) \/ ~isDirectory(cur)
    THEN {[kind |-> "path", path |-> candidate]}
  ELSE IF ~statSync(cur).readable THEN {[kind |-> "throw", path |-> cur]}
  ELSE LET matches == { e \in readdirSync(cur) : Lower(e) = Lower(Head(parts)) }
           nexts == IF matches = {} THEN {Head(parts)} ELSE matches
       IN  UNION { Traverse(BasePath(Append(cur.segs, n)), Tail(parts), candidate) :
                   n \in nexts }

\* A file:// URL: new URL(rawSrc) cuts the query and the fragment off the
\* pathname before anything is decoded.
FileUrlPathname(rawSrc) == stripQueryHash(SubSeq(rawSrc, 3, Len(rawSrc)))

\* url.fileURLToPath returns the decoded pathname of a file:// URL with an
\* empty host; it throws for a URL with a host, for a pathname with an
\* encoded "/" and for one with a malformed escape.
FileUrlOk(rawSrc) ==
  /\ Len(rawSrc) >= 3 /\ rawSrc[3] = "/"
  /\ \A i \in 1..Len(FileUrlPathname(rawSrc)) :
       FileUrlPathname(rawSrc)[i] \notin {"%2F", "%ZZ"}

startsWithFile(rawSrc) == Len(rawSrc) >= 2 /\ rawSrc[1] = "file:" /\ rawSrc[2] = "//"

\* resolveLocalPath(rawSrc, baseDir): the set of its outcomes, a path or an
\* exception thrown by readdirSync.
resolveLocalPath(rawSrc) ==
  IF startsWithFile(rawSrc) /\ FileUrlOk(rawSrc)
    THEN {[kind |-> "path",
           path |-> [abs |-> TRUE,
                     segs |-> PathSegs(decodeMaybeURI(FileUrlPathname(rawSrc)))]]}
  ELSE LET decoded == decodeMaybeURI(rawSrc)
           noQH == stripQueryHash(decoded)
           candidate == pathResolve(noQH)
       IN  IF existsSync(candidate) THEN {[kind |-> "path", path |-> candidate]}
           ELSE Traverse(BasePath(<<>>), PathSegs(noQH), candidate)

\* ------------------------------------------------------- MIME and encoding

extsToMime ==
  [e \in {"png", "jpg", "jpeg", "gif", "webp", "bmp", "ico", "svg", "avif"} |->
     CASE e = "png" -> "image/png"
       [] e = "jpg" -> "image/jpeg"
       [] e = "jpeg" -> "image/jpeg"
       [] e = "gif" -> "image/gif"
       [] e = "webp" -> "image/webp"
       [] e = "bmp" -> "image/bmp"
       [] e = "ico" -> "image/x-icon"
       [] e = "svg" -> "image/svg+xml"
       [] e = "avif" -> "image/avif"]

\* extsToMime is an object literal: extsToMime[ext] also finds the properties
\* it inherits from Object.prototype, here as the template literal prints
\* them.  Of those, "constructor" and "__proto__" are their own lower case.
ObjectPrototype ==
  [k \in {"constructor", "__proto__"} |->
     IF k = "constructor" THEN "function Object() { [native code] }"
                          ELSE "[object Object]"]

\* /^image\/[a-z0-9.+-]+/i on the first token of a Content-Type header.
IsImageTok(c) ==
  LowerTok(c) \in {"image/png", "image/webp", "image/gif", "image/jpeg", "image/svg+xml"}

\* path.extname(p).slice(1): what follows the last "." of the last segment,
\* nothing when that segment has no "." or only a leading one.
extname(p) ==
  LET base == SubSeq(p, LastIndexOf(p, "/") + 1, Len(p))
      i == LastIndexOf(base, ".")
  IN  IF i <= 1 THEN <<>> ELSE SubSeq(base, i + 1, Len(base))

B64 == <<
     "A", "B", "C", "D", "E", "F", "G", "H", "I", "J", "K", "L", "M", "N", "O", "P",
     "Q", "R", "S", "T", "U", "V", "W", "X", "Y", "Z", "a", "b", "c", "d", "e", "f",
     "g", "h", "i", "j", "k", "l", "m", "n", "o", "p", "q", "r", "s", "t", "u", "v",
     "w", "x", "y", "z", "0", "1", "2", "3", "4", "5", "6", "7", "8", "9", "+", "/" >>

RECURSIVE Base64(_)
\* Buffer.prototype.toString("base64")
Base64(buf) ==
  IF buf = <<>> THEN <<>>
  ELSE IF Len(buf) = 1 THEN
    LET n == buf[1] * 65536
    IN  <<B64[(n \div 262144) + 1], B64[((n \div 4096) % 64) + 1], "=", "=">>
  ELSE IF Len(buf) = 2 THEN
    LET n == buf[1] * 65536 + buf[2] * 256
    IN  <<B64[(n \div 262144) + 1], B64[((n \div 4096) % 64) + 1],
          B64[((n \div 64) % 64) + 1], "=">>
  ELSE
    LET n == buf[1] * 65536 + buf[2] * 256 + buf[3]
    IN  <<B64[(n \div 262144) + 1], B64[((n \div 4096) % 64) + 1],
          B64[((n \div 64) % 64) + 1], B64[(n % 64) + 1]>>
        \o Base64(SubSeq(buf, 4, Len(buf)))

\* The MIME type bufferToDataUrl chooses, as a string.
MimeOf(fallbackPathOrExt, contentTypeHeader) ==
  IF contentTypeHeader # <<>> /\ IsImageTok(Head(contentTypeHeader))
    THEN Trim(SplitOn(contentTypeHeader, ";")[1])
  ELSE LET ext == Lower(IF \E i \in 1..Len(fallbackPathOrExt) : fallbackPathOrExt[i] = "."
                          THEN extname(fallbackPathOrExt)
                          ELSE fallbackPathOrExt)
       IN  IF Len(ext) = 1 /\ ext[1] \in DOMAIN extsToMime
             THEN <<extsToMime[ext[1]]>>
           ELSE IF Len(ext) = 1 /\ ext[1] \in DOMAIN ObjectPrototype
             THEN <<ObjectPrototype[ext[1]]>>
             ELSE <<"application/octet-stream">>

bufferToDataUrl(buf, fallbackPathOrExt, contentTypeHeader) ==
  <<"data:">> \o MimeOf(fallbackPathOrExt, contentTypeHeader)
    \o <<";", "base64", ",">> \o Base64(buf)

\* ---------------------------------------------------------------- outcomes

\* The size of an outcome that carries none.
NoSize == 0 - 1

Success(dataUrl) == [ok |-> TRUE, reason |-> "", size |-> NoSize, dataUrl |-> dataUrl]

Failure(reason, size) == [ok |-> FALSE, reason |-> reason, size |-> size, dataUrl |-> <<>>]

\* ------------------------------------------------------------- LocalLoader

\* toDataUrlLocal with the size test stat.size >= maxBytes.
LoadFromAtLimit(present, kind, size, readable, bytes, nameText, maxBytes) ==
  IF ~present THEN Failure("not_found", NoSize)
  ELSE IF kind # "file" THEN Failure("not_file", NoSize)
  ELSE IF size >= maxBytes THEN Failure("too_large", size)
  ELSE IF ~readable THEN Failure("read_error", NoSize)
  ELSE Success(bufferToDataUrl(bytes, nameText, <<>>))

\* The entry toDataUrlLocal reads, described by what fs reports of it:
\* present (existsSync), kind and size (statSync), readable (readFileSync).
LoadFrom(present, kind, size, readable, bytes, nameText, maxBytes) ==
  IF ~present THEN Failure("not_found", NoSize)
  ELSE IF kind # "file" THEN Failure("not_file", NoSize)
  ELSE IF size > maxBytes THEN Failure("too_large", size)
  ELSE IF ~readable THEN Failure("read_error", NoSize)
  ELSE Success(bufferToDataUrl(bytes, nameText, <<>>))

\* Whether toDataUrlLocal reaches readFileSync.
ReadsFrom(present, kind, size, maxBytes) ==
  present /\ kind = "file" /\ ~(size > maxBytes)

toDataUrlLocal(filePath, maxBytes) ==
  IF ~existsSync(filePath)
    THEN LoadFrom(FALSE, "none", 0, FALSE, <<>>, PathText(filePath), maxBytes)
    ELSE LET st == statSync(filePath)
         IN  LoadFrom(TRUE, st.kind, st.size, st.readable, Bytes(st.size, st.seed),
                      PathText(filePath), maxBytes)

\* ------------------------------------------------------------ RemoteFetcher

\* An Error the fetch rejects with: its message, and for "http_<code>" the
\* code, for "too_large" the size property.
Err(name, code, size) == [name |-> name, code |-> code, size |-> size]

\* [301,302,303,307,308].includes(statusCode)
RedirectCodes == {301, 302, 303, 307, 308}

isRedirect(statusCode) == statusCode \in RedirectCodes

\* statusCode < 200 || statusCode >= 300
isHttpError(statusCode) == statusCode < 200 \/ statusCode >= 300

\* The budget test one redirect late.
BudgetExhaustedLate(left) == left < 0

\* redirectsLeft <= 0
BudgetExhausted(left) == left <= 0

\* A visited set that is never consulted.
visitedHasNever(vis, u) == FALSE

\* visited.has(currentUrl)
visitedHas(vis, u) == u \in vis

\* Number.isFinite(cl) && cl > maxBytes; an absent header is NoSize.
DeclaredTooLarge(cl, maxBytes) == cl # NoSize /\ cl > maxBytes

\* The streamed-size test with >= for >.
OverBudgetAtLimit(tot, maxBytes) == tot >= maxBytes

\* The streamed-size test one byte late.
OverBudgetLate(tot, maxBytes) == tot > maxBytes + 1

\* total > maxBytes
OverBudget(tot, maxBytes) == tot > maxBytes

RECURSIVE SumSeq(_)
SumSeq(q) == IF q = <<>> THEN 0 ELSE Head(q) + SumSeq(Tail(q))

\* Buffer.concat(chunks): the body's first bytes, as many as the chunks hold.
BufferConcat(cs) == Bytes(SumSeq(cs), 76)

\* new URL(u): scheme, "//", a host, then the path.
ValidUrl(u) == Len(u) >= 3 /\ u[2] = "//" /\ u[3] \notin {"/", "?", "#", "//"}

\* new URL(u).pathname
UrlPathname(u) ==
  LET rest == stripQueryHash(SubSeq(u, 3, Len(u)))
      i == IndexOf(rest, "/")
  IN  IF i = 0 THEN <<"/">> ELSE SubSeq(rest, i, Len(rest))

\* The catch block of toDataUrlRemote: reasonMap, then the http_ prefix.
ReasonOf(e) ==
  CASE e.name = "timeout" -> "remote_timeout"
    [] e.name = "redirect_loop" -> "remote_redirect_loop"
    [] e.name = "redirect_without_location" -> "remote_redirect_no_location"
    [] e.name = "too_many_redirects" -> "remote_too_many_redirects"
    [] e.name = "too_large" -> "too_large"
    [] e.name = "too_large_stream" -> "too_large"
    [] e.name = "http_" -> "remote_http_error"
    [] OTHER -> "remote_error"

\* What toDataUrlRemote returns when the fetch rejects with e.
RemoteFailure(e) == Failure(ReasonOf(e), IF e.size > 0 THEN e.size ELSE NoSize)

\* What toDataUrlRemote returns when the fetch resolves.
RemoteSuccess(remoteUrl, buffer, ctype) ==
  Success(bufferToDataUrl(buffer, extname(UrlPathname(normalizeRemoteUrl(remoteUrl))), ctype))

\* ------------------------------------------------------------- diagnostics

\* A key without the call site.
WarnKeyNoSite(site, ref) == ref

\* The key of a warning: the call site and the raw reference text.
WarnKey(site, ref) == <<site>> \o ref

\* A warn-once test that never finds the key.
warnSeenNever(seen, key) == FALSE

\* seenWarn.has(key)
warnSeen(seen, key) == key \in seen

\* ------------------------------------------------------------ remote cache

NoPromise == [settled |-> FALSE, res |-> Failure("none", NoSize)]

Pending == [settled |-> FALSE, res |-> Failure("pending", NoSize)]

Settled(res) == [settled |-> TRUE, res |-> res]

\* A cache that never hits.
cacheGetMiss(cache, key) == NoPromise

\* remoteCache.get(key), NoPromise for undefined.
cacheGet(cache, key) == IF key \in DOMAIN cache THEN cache[key] ELSE NoPromise

\* A cache that only keeps promises that have settled.
cacheSetSettled(cache, key, p) ==
  IF p.settled THEN [k \in DOMAIN cache \cup {key} |-> IF k = key THEN p ELSE cache[k]]
  ELSE cache

\* remoteCache.set(key, p)
cacheSet(cache, key, p) ==
  [k \in DOMAIN cache \cup {key} |-> IF k = key THEN p ELSE cache[k]]

\* ------------------------------------------------------------------ srcset

\* part.match(/^(\S+)(\s+\S+)?$/) on a trimmed part: its runs of
\* non-whitespace, one or two of them for a match.
Runs(part) == FilterNonEmpty(SplitOn(part, " "))

partMatches(part) == Len(Runs(part)) \in {1, 2}

urlPartOf(part) == Runs(part)[1]

descriptorOf(part) == IF Len(Runs(part)) = 2 THEN Runs(part)[2] ELSE <<>>

\* srcset.split(",").map(s => s.trim()).filter(Boolean)
srcsetParts(srcset) ==
  LET raw == SplitOn(srcset, ",")
  IN  FilterNonEmpty([i \in 1..Len(raw) |-> Trim(raw[i])])

\* What the loop pushes for an item that resolved to dataUrl.
itemOut(dataUrl, descriptor) ==
  IF descriptor # <<>> THEN dataUrl \o <<" ">> \o descriptor ELSE dataUrl

\* out.join(", ")
srcsetJoin(out) == JoinWith(out, <<",", " ">>)

\* ------------------------------------------------------------------ inputs

DataRef == <<"data:", "image/png", ";", "base64", ",", "A", "A", "=", "=">>

Remote1 == <<"http:", "//", "h", "/", "x", ".", "png">>

\* A protocol-relative reference, its path without an extension.
Remote2 == <<"//", "h", "/", "y">>

\* A remote reference new URL() cannot parse: no host.
RemoteBad == <<"http:", "//">>

LocalOk == <<"a", ".", "png">>

LocalMissing == <<"missing", ".", "png">>

\* A file that does not exist, in the directory that cannot be listed.
LocalLocked == <<"locked", "/", "x", ".", "png">>

\* The src values of the documents; <<>> is a tag without src.
SrcValues ==
  {<<>>, DataRef, Remote1, Remote2, RemoteBad, LocalOk, LocalMissing, LocalLocked}

Item(url, desc) == [url |-> url, desc |-> desc]

itemText(it) == IF it.desc = <<>> THEN it.url ELSE it.url \o <<" ">> \o it.desc

\* The srcset value an author writes for a list of items.
srcsetOf(items, sep) == JoinWith([i \in 1..Len(items) |-> itemText(items[i])], sep)

Spaced == <<",", " ">>

Compact == <<",">>

\* The srcset values of the documents, each as the items it was written
\* from and the separator between them; no items is a tag without srcset.
SrcsetInputs ==
  { [items |-> <<>>, sep |-> Spaced],
    [items |-> <<Item(DataRef, <<"1x">>)>>, sep |-> Spaced],
    [items |-> <<Item(DataRef, <<"1x">>), Item(DataRef, <<"2x">>)>>, sep |-> Spaced],
    [items |-> <<Item(LocalOk, <<"1x">>), Item(LocalMissing, <<"2x">>)>>, sep |-> Spaced],
    [items |-> <<Item(LocalOk, <<"1x">>), Item(LocalMissing, <<"2x">>)>>, sep |-> Compact],
    [items |-> <<Item(LocalMissing, <<"1x">>), Item(LocalMissing, <<"2x">>)>>, sep |-> Spaced],
    [items |-> <<Item(LocalMissing, <<"1x">>), Item(LocalMissing, <<"2x">>)>>, sep |-> Compact],
    [items |-> <<Item(Remote1, <<"1x">>), Item(Remote1, <<"2x">>)>>, sep |-> Spaced],
    [items |-> <<Item(Remote1, <<>>), Item(LocalOk, <<"2x">>)>>, sep |-> Spaced],
    [items |-> <<Item(LocalMissing, <<"1x">>)>>, sep |-> Spaced] }

\* What a server answers: statuses, Content-Length and Content-Type headers
\* (NoSize and <<>> for an absent header), and the sizes of body chunks.
OtherCodes == {0, 304, 404, 500}

OkCodes == {200, 204}

ContentLengths == {NoSize} \cup 0..(MaxBytes + 1)

ContentTypes == {<<>>, <<"image/webp">>}

ChunkSizes == 1..(MaxBytes + 1)

\* A redirect without a Location header.
NoLocation == 0 - 1

\* ------------------------------------------------------------------- state

VARIABLES
  pc,          \* where processHtml / transformImgTag / transformSrcsetValue stands
  tagsDone,    \* <img> tags processed so far
  tag,         \* the attribute values of the current tag, as read
  changed,     \* the current tag, as rewritten so far
  authored,    \* the items the current srcset value was written from
  parts,       \* transformSrcsetValue: the parts still to process
  out,         \* transformSrcsetValue: out
  counters,    \* counters.replacedCount, counters.srcsetCount
  remoteCache, \* raw reference -> promise
  seenWarn,    \* keys already warned about
  stderr,      \* the warning lines written
  fetchRef,    \* the raw reference the running toDataUrlRemote call is for
  fphase,      \* "off", "request" (awaiting a response), "body", "settled"
  currentUrl,  \* doFetch: the URL requested, a redirect target by its number
  visited,     \* fetchRemoteBuffer: visited, by number; 0 is the start URL
  redirectsLeft,
  total,       \* body bytes counted
  chunks,      \* body chunks kept (their sizes)
  contentType, \* headers["content-type"] of the 2xx response
  declared,    \* cl: its Content-Length, NoSize when absent or not a number
  settledBy,   \* how the call settled: "end" or the error's message
  requests,    \* requests issued by the running call
  loopedTo,    \* the visited URL the last redirect response named, if it named one
  startedLog,  \* the raw references toDataUrlRemote was called with, in order
  observed,    \* (reference, outcome) pairs the occurrences awaited
  warnCalls,   \* the keys warnOnce was called with
  failedKeys,  \* (call site, reference) pairs whose outcome was a Failure
  fsReads,     \* readFileSync calls
  allInlined,  \* every reference read so far was a data: reference
  ld,          \* LocalLoader on its own: input and outcome
  pf,          \* a function of the engine on its own: arguments and result
  tasks        \* resolution tasks run side by side: reference, position, result

engineVars == <<pc, tagsDone, tag, changed, authored, parts, out, counters>>

diagVars == <<seenWarn, stderr, warnCalls, failedKeys>>

fetchVars ==
  <<fetchRef, fphase, currentUrl, visited, redirectsLeft, total, chunks, contentType, declared,
    settledBy, requests, loopedTo>>

vars ==
  <<pc, tagsDone, tag, changed, authored, parts, out, counters, remoteCache, seenWarn,
    stderr, fetchRef, fphase, currentUrl, visited, redirectsLeft, total, chunks,
    contentType, declared, settledBy, requests, loopedTo, startedLog, observed, warnCalls,
    failedKeys, fsReads, allInlined, ld, pf, tasks>>

NoTag == [src |-> <<>>, srcset |-> <<>>]

LdIdle == [done |-> FALSE, present |-> FALSE, kind |-> "none", size |-> 0,
           readable |-> FALSE, maxBytes |-> 0, res |-> Failure("none", NoSize),
           read |-> FALSE]

FetchOff ==
  /\ fetchRef = <<>> /\ fphase = "off" /\ currentUrl = <<>> /\ visited = {}
  /\ redirectsLeft = 0 /\ total = 0 /\ chunks = <<>> /\ contentType = <<>> /\ declared = NoSize
  /\ settledBy = "" /\ requests = 0 /\ loopedTo = NoLocation

EngineInit ==
  /\ pc = "idle" /\ tagsDone = 0 /\ tag = NoTag /\ changed = NoTag /\ authored = <<>>
  /\ parts = <<>> /\ out = <<>>
  /\ counters = [replacedCount |-> 0, srcsetCount |-> 0]
  /\ remoteCache = <<>> /\ seenWarn = {} /\ stderr = <<>>
  /\ FetchOff
  /\ startedLog = <<>> /\ observed = {} /\ warnCalls = {} /\ failedKeys = {}
  /\ fsReads = 0 /\ allInlined = TRUE

\* No function is called on its own.
PfIdle == [fn |-> "none", a |-> <<>>, b |-> <<>>, done |-> FALSE, res |-> <<>>]

Init == EngineInit /\ ld = LdIdle /\ pf = PfIdle /\ tasks = <<>>

\* ------------------------------------------------ toDataUrlRemote: the call

ResetFetch ==
  /\ fetchRef' = <<>> /\ fphase' = "off" /\ currentUrl' = <<>> /\ visited' = {}
  /\ redirectsLeft' = 0 /\ total' = 0 /\ chunks' = <<>> /\ contentType' = <<>> /\ declared' = NoSize
  /\ settledBy' = "" /\ requests' = 0 /\ loopedTo' = NoLocation

\* The promise of the running call settles with res.
Settle(res, by) ==
  /\ remoteCache' = cacheSet(remoteCache, fetchRef, Settled(res))
  /\ fphase' = "settled"
  /\ settledBy' = by

\* The fetch rejects with e; toDataUrlRemote's catch block maps it.
Reject(e) == Settle(RemoteFailure(e), e.name)

\* toDataUrlRemote(ref) up to its first suspension: doFetch(u, maxRedirects)
\* marks u visited and issues the request; new URL(u) throws on a bad URL.
StartFetch(ref) ==
  /\ startedLog' = Append(startedLog, ref)
  /\ fetchRef' = ref
  /\ currentUrl' = normalizeRemoteUrl(ref)
  /\ visited' = {0}
  /\ redirectsLeft' = MaxRedirects
  /\ total' = 0 /\ chunks' = <<>> /\ contentType' = <<>> /\ declared' = NoSize
  /\ loopedTo' = NoLocation
  /\ IF ValidUrl(normalizeRemoteUrl(ref))
       THEN /\ fphase' = "request" /\ settledBy' = "" /\ requests' = 1
            /\ remoteCache' = cacheSet(remoteCache, ref, Pending)
       ELSE /\ fphase' = "settled" /\ settledBy' = "Invalid URL" /\ requests' = 0
            /\ remoteCache' =
                 cacheSet(remoteCache, ref, Settled(RemoteFailure(Err("Invalid URL", 0, 0))))

\* const p = remoteCache.get(ref) || toDataUrlRemote(ref, maxBytes);
\* remoteCache.set(ref, p);
RemoteLookup(ref) ==
  IF cacheGet(remoteCache, ref) # NoPromise
    THEN UNCHANGED <<remoteCache, fetchVars, startedLog>>
    ELSE StartFetch(ref)

\* A promise used without waiting for it.
AwaitedAtOnce(ref) == ref \in DOMAIN remoteCache

\* await p resumes once the promise is settled.
Awaited(ref) == ref \in DOMAIN remoteCache /\ remoteCache[ref].settled

\* ------------------------------------------- fetchRemoteBuffer: the events

\* A redirect response: the Location is absent, a URL of the chain, or a
\* URL not requested yet (named by its place in the chain).
OnRedirect ==
  /\ fphase = "request"
  /\ \E code \in RedirectCodes, loc \in {NoLocation} \cup visited \cup {Cardinality(visited)} :
       /\ isRedirect(code)
       /\ loopedTo' = (IF loc \in visited THEN loc ELSE NoLocation)
       /\ IF loc = NoLocation
            THEN /\ Reject(Err("redirect_without_location", 0, 0))
                 /\ UNCHANGED <<currentUrl, visited, redirectsLeft, requests>>
          ELSE IF BudgetExhausted(redirectsLeft)
            THEN /\ Reject(Err("too_many_redirects", 0, 0))
                 /\ UNCHANGED <<currentUrl, visited, redirectsLeft, requests>>
          ELSE IF visitedHas(visited, loc)
            THEN /\ Reject(Err("redirect_loop", 0, 0))
                 /\ UNCHANGED <<currentUrl, visited, redirectsLeft, requests>>
          ELSE /\ visited' = visited \cup {loc}
               /\ currentUrl' = loc
               /\ redirectsLeft' = redirectsLeft - 1
               /\ requests' = requests + 1
               /\ UNCHANGED <<remoteCache, fphase, settledBy>>
  /\ UNCHANGED <<engineVars, diagVars, fetchRef, total, chunks, contentType, declared, startedLog,
                 observed, fsReads, allInlined, ld, pf, tasks>>

\* A redirect response whose Location new URL(loc, currentUrl) cannot parse
\* ("http://", a host with a space): past the budget test, the constructor
\* throws inside the response callback, where no promise catches it, and
\* the process ends with an uncaught exception.
OnBadRedirect ==
  /\ fphase = "request"
  /\ \E code \in RedirectCodes :
       /\ isRedirect(code)
       /\ IF BudgetExhausted(redirectsLeft)
            THEN /\ Reject(Err("too_many_redirects", 0, 0))
                 /\ UNCHANGED pc
            ELSE /\ pc' = "crashed"
                 /\ fphase' = "crashed"
                 /\ settledBy' = "uncaught"
                 /\ UNCHANGED remoteCache
  /\ loopedTo' = NoLocation
  /\ UNCHANGED <<tagsDone, tag, changed, authored, parts, out, counters, diagVars, fetchRef,
                 currentUrl, visited, redirectsLeft, total, chunks, contentType, declared,
                 requests, startedLog, observed, fsReads, allInlined, ld, pf, tasks>>

\* A final response with a status outside [200,300).
OnHttpError ==
  /\ fphase = "request"
  /\ \E code \in OtherCodes :
       /\ ~isRedirect(code) /\ isHttpError(code)
       /\ Reject(Err("http_", code, 0))
  /\ UNCHANGED <<engineVars, diagVars, fetchRef, currentUrl, visited, redirectsLeft, total,
                 chunks, contentType, declared, requests, loopedTo, startedLog, observed, fsReads,
                 allInlined, ld, pf, tasks>>

\* A 2xx response: the declared length is checked before any byte is read.
OnOk ==
  /\ fphase = "request"
  /\ \E code \in OkCodes, cl \in ContentLengths, ct \in ContentTypes :
       /\ ~isRedirect(code) /\ ~isHttpError(code)
       /\ IF DeclaredTooLarge(cl, MaxBytes)
            THEN /\ Reject(Err("too_large", 0, cl))
                 /\ UNCHANGED contentType
                 /\ declared' = cl
            ELSE /\ fphase' = "body"
                 /\ contentType' = ct
                 /\ declared' = cl
                 /\ UNCHANGED <<remoteCache, settledBy>>
  /\ total' = 0 /\ chunks' = <<>>
  /\ UNCHANGED <<engineVars, diagVars, fetchRef, currentUrl, visited, redirectsLeft,
                 requests, loopedTo, startedLog, observed, fsReads, allInlined, ld, pf, tasks>>

\* res.on("data"): a chunk of n bytes arrives.
OnData ==
  /\ fphase = "body"
  /\ \E n \in ChunkSizes :
       /\ total' = total + n
       /\ IF OverBudget(total + n, MaxBytes)
            THEN /\ Reject(Err("too_large_stream", 0, 0))
                 /\ UNCHANGED chunks
            ELSE /\ chunks' = Append(chunks, n)
                 /\ UNCHANGED <<remoteCache, fphase, settledBy>>
  /\ UNCHANGED <<engineVars, diagVars, fetchRef, currentUrl, visited, redirectsLeft,
                 contentType, declared, requests, loopedTo, startedLog, observed, fsReads,
                 allInlined, ld, pf, tasks>>

\* res.on("end")
OnEnd ==
  /\ fphase = "body"
  /\ Settle(RemoteSuccess(fetchRef, BufferConcat(chunks), contentType), "end")
  /\ UNCHANGED <<engineVars, diagVars, fetchRef, currentUrl, visited, redirectsLeft, total,
                 chunks, contentType, declared, requests, loopedTo, startedLog, observed, fsReads,
                 allInlined, ld, pf, tasks>>

\* req.on("timeout"): the request is destroyed with Error("timeout").
OnTimeout ==
  /\ fphase \in {"request", "body"}
  /\ Reject(Err("timeout", 0, 0))
  /\ UNCHANGED <<engineVars, diagVars, fetchRef, currentUrl, visited, redirectsLeft, total,
                 chunks, contentType, declared, requests, loopedTo, startedLog, observed, fsReads,
                 allInlined, ld, pf, tasks>>

\* req.on("error") / res.on("error"): a transport error.
OnError ==
  /\ fphase \in {"request", "body"}
  /\ Reject(Err("ECONNRESET", 0, 0))
  /\ UNCHANGED <<engineVars, diagVars, fetchRef, currentUrl, visited, redirectsLeft, total,
                 chunks, contentType, declared, requests, loopedTo, startedLog, observed, fsReads,
                 allInlined, ld, pf, tasks>>

\* ------------------------------------------------------------ the engine

\* warnOnce(key, res)
WarnOnce(key, res) ==
  /\ warnCalls' = warnCalls \cup {key}
  /\ IF warnSeen(seenWarn, key)
       THEN UNCHANGED <<seenWarn, stderr>>
       ELSE /\ seenWarn' = seenWarn \cup {key}
            /\ stderr' = Append(stderr, [key |-> key, reason |-> res.reason,
                                         size |-> res.size])

\* transformImgTag, after the src outcome is known (lines 319-324, 328-333).
SrcResult(res) ==
  /\ IF res.ok
       THEN /\ changed' = [changed EXCEPT !.src = res.dataUrl]
            /\ counters' = [counters EXCEPT !.replacedCount = @ + 1]
            /\ UNCHANGED <<seenWarn, stderr, warnCalls, failedKeys>>
       ELSE /\ WarnOnce(WarnKey("src:", tag.src), res)
            /\ failedKeys' = failedKeys \cup {[site |-> "src", ref |-> tag.src]}
            /\ UNCHANGED <<changed, counters>>
  /\ pc' = "srcset"
  /\ UNCHANGED <<tagsDone, tag, authored, parts, out>>

\* transformSrcsetValue, after an item's outcome is known (lines 291-292,
\* 299-304).
ItemResult(res) ==
  LET part == Head(parts)
      urlPart == urlPartOf(part)
      descriptor == descriptorOf(part)
  IN  /\ IF res.ok
           THEN /\ out' = Append(out, itemOut(res.dataUrl, descriptor))
                /\ UNCHANGED <<seenWarn, stderr, warnCalls, failedKeys>>
           ELSE /\ WarnOnce(WarnKey("srcset:", urlPart), res)
                /\ failedKeys' = failedKeys \cup {[site |-> "srcset", ref |-> urlPart]}
                /\ out' = Append(out, part)
      /\ parts' = Tail(parts)
      /\ pc' = "item"
      /\ UNCHANGED <<tagsDone, tag, changed, authored, counters>>

\* processHtml reaches the next <img> tag; transformImgTag reads its src.
ReadTag ==
  /\ pc = "idle" /\ tagsDone < MaxTags
  /\ \E s \in SrcValues :
       /\ tag' = [src |-> s, srcset |-> <<>>]
       /\ changed' = [src |-> s, srcset |-> <<>>]
       /\ allInlined' = (allInlined /\ (s = <<>> \/ isDataUrl(s)))
  /\ pc' = "src"
  /\ UNCHANGED <<tagsDone, authored, parts, out, counters, remoteCache, diagVars,
                 fetchVars, startedLog, observed, fsReads, ld, pf, tasks>>

\* if (src && !isDataUrl(src)) is false.
SrcSkip ==
  /\ pc = "src"
  /\ tag.src = <<>> \/ isDataUrl(tag.src)
  /\ pc' = "srcset"
  /\ UNCHANGED <<tagsDone, tag, changed, authored, parts, out, counters, remoteCache,
                 diagVars, fetchVars, startedLog, observed, fsReads, allInlined, ld, pf, tasks>>

\* A remote src: the cache is consulted and the promise awaited.
SrcRemote ==
  /\ pc = "src"
  /\ tag.src # <<>> /\ ~isDataUrl(tag.src) /\ isRemote(tag.src)
  /\ RemoteLookup(tag.src)
  /\ pc' = "awaitSrc"
  /\ UNCHANGED <<tagsDone, tag, changed, authored, parts, out, counters, diagVars,
                 observed, fsReads, allInlined, ld, pf, tasks>>

SrcAwait ==
  /\ pc = "awaitSrc"
  /\ Awaited(tag.src)
  /\ SrcResult(remoteCache[tag.src].res)
  /\ observed' = observed \cup {[ref |-> tag.src, res |-> remoteCache[tag.src].res]}
  /\ ResetFetch
  /\ UNCHANGED <<remoteCache, startedLog, fsReads, allInlined, ld, pf, tasks>>

\* A local src: resolveLocalPath, then toDataUrlLocal; an exception of
\* resolveLocalPath leaves transformImgTag and ends the run.
SrcLocal ==
  /\ pc = "src"
  /\ tag.src # <<>> /\ ~isDataUrl(tag.src) /\ ~isRemote(tag.src)
  /\ \E o \in resolveLocalPath(tag.src) :
       IF o.kind = "throw"
         THEN /\ pc' = "crashed"
              /\ UNCHANGED <<tagsDone, tag, changed, authored, parts, out, counters,
                             diagVars, fsReads>>
         ELSE /\ SrcResult(toDataUrlLocal(o.path, MaxBytes))
              /\ fsReads' = fsReads +
                   (IF existsSync(o.path) /\
                       ReadsFrom(TRUE, statSync(o.path).kind, statSync(o.path).size, MaxBytes)
                      THEN 1 ELSE 0)
  /\ UNCHANGED <<remoteCache, fetchVars, startedLog, observed, allInlined, ld, pf, tasks>>

\* transformImgTag reads the srcset value; transformSrcsetValue splits it.
ReadSrcset ==
  /\ pc = "srcset"
  /\ \E v \in SrcsetInputs :
       LET text == srcsetOf(v.items, v.sep)
       IN  /\ tag' = [tag EXCEPT !.srcset = text]
           /\ changed' = [changed EXCEPT !.srcset = text]
           /\ authored' = v.items
           /\ allInlined' =
                (allInlined /\ \A i \in 1..Len(v.items) : isDataUrl(v.items[i].url))
           /\ IF text = <<>>
                THEN pc' = "emit" /\ UNCHANGED <<parts, out>>
                ELSE pc' = "item" /\ parts' = srcsetParts(text) /\ out' = <<>>
  /\ UNCHANGED <<tagsDone, counters, remoteCache, diagVars, fetchVars, startedLog,
                 observed, fsReads, ld, pf, tasks>>

\* A part that does not match, or whose URL is a data: URL, is kept.
ItemKeep ==
  /\ pc = "item" /\ parts # <<>>
  /\ ~partMatches(Head(parts)) \/ isDataUrl(urlPartOf(Head(parts)))
  /\ out' = Append(out, Head(parts))
  /\ parts' = Tail(parts)
  /\ UNCHANGED <<pc, tagsDone, tag, changed, authored, counters, remoteCache, diagVars,
                 fetchVars, startedLog, observed, fsReads, allInlined, ld, pf, tasks>>

ItemRemote ==
  /\ pc = "item" /\ parts # <<>>
  /\ partMatches(Head(parts))
  /\ ~isDataUrl(urlPartOf(Head(parts))) /\ isRemote(urlPartOf(Head(parts)))
  /\ RemoteLookup(urlPartOf(Head(parts)))
  /\ pc' = "awaitItem"
  /\ UNCHANGED <<tagsDone, tag, changed, authored, parts, out, counters, diagVars,
                 observed, fsReads, allInlined, ld, pf, tasks>>

ItemAwait ==
  /\ pc = "awaitItem"
  /\ Awaited(urlPartOf(Head(parts)))
  /\ ItemResult(remoteCache[urlPartOf(Head(parts))].res)
  /\ observed' = observed \cup {[ref |-> urlPartOf(Head(parts)),
                                 res |-> remoteCache[urlPartOf(Head(parts))].res]}
  /\ ResetFetch
  /\ UNCHANGED <<remoteCache, startedLog, fsReads, allInlined, ld, pf, tasks>>

ItemLocal ==
  /\ pc = "item" /\ parts # <<>>
  /\ partMatches(Head(parts))
  /\ ~isDataUrl(urlPartOf(Head(parts))) /\ ~isRemote(urlPartOf(Head(parts)))
  /\ \E o \in resolveLocalPath(urlPartOf(Head(parts))) :
       IF o.kind = "throw"
         THEN /\ pc' = "crashed"
              /\ UNCHANGED <<tagsDone, tag, changed, authored, parts, out, counters,
                             diagVars, fsReads>>
         ELSE /\ ItemResult(toDataUrlLocal(o.path, MaxBytes))
              /\ fsReads' = fsReads +
                   (IF existsSync(o.path) /\
                       ReadsFrom(TRUE, statSync(o.path).kind, statSync(o.path).size, MaxBytes)
                      THEN 1 ELSE 0)
  /\ UNCHANGED <<remoteCache, fetchVars, startedLog, observed, allInlined, ld, pf, tasks>>

\* The loop is over: out.join(", "), and the attribute is replaced and
\* counted when the value differs (transformImgTag lines 340-344).
SrcsetDone ==
  /\ pc = "item" /\ parts = <<>>
  /\ LET newVal == srcsetJoin(out)
     IN  IF newVal # tag.srcset
           THEN /\ changed' = [changed EXCEPT !.srcset = newVal]
                /\ counters' = [counters EXCEPT !.srcsetCount = @ + 1]
           ELSE UNCHANGED <<changed, counters>>
  /\ pc' = "emit"
  /\ UNCHANGED <<tagsDone, tag, authored, parts, out, remoteCache, diagVars, fetchVars,
                 startedLog, observed, fsReads, allInlined, ld, pf, tasks>>

\* processHtml appends the rewritten tag (out += newTag).
Emit ==
  /\ pc = "emit"
  /\ tagsDone' = tagsDone + 1
  /\ tag' = NoTag /\ changed' = NoTag /\ authored' = <<>> /\ parts' = <<>> /\ out' = <<>>
  /\ pc' = "idle"
  /\ UNCHANGED <<counters, remoteCache, diagVars, fetchVars, startedLog, observed,
                 fsReads, allInlined, ld, pf, tasks>>

\* No tag is left: the output is written and the summary line printed.
Finish ==
  /\ pc = "idle"
  /\ pc' = "done"
  /\ UNCHANGED <<tagsDone, tag, changed, authored, parts, out, counters, remoteCache,
                 diagVars, fetchVars, startedLog, observed, fsReads, allInlined, ld, pf, tasks>>

\* The errors fetchRemoteBuffer rejects with.
FetchErrors ==
  {Err("redirect_without_location", 0, 0), Err("too_many_redirects", 0, 0),
   Err("redirect_loop", 0, 0), Err("timeout", 0, 0), Err("ECONNRESET", 0, 0),
   Err("too_large_stream", 0, 0)}
    \cup {Err("http_", c, 0) : c \in OtherCodes}
    \cup {Err("too_large", 0, cl) : cl \in {c \in ContentLengths : DeclaredTooLarge(c, MaxBytes)}}

\* The outcomes of toDataUrlRemote(ref): what the events of FetchNext can
\* settle the call with (FetchContract, checked under FetchSpec).
RemoteResults(ref) ==
  {RemoteFailure(e) : e \in FetchErrors}
    \cup {RemoteSuccess(ref, Bytes(n, 76), ct) : n \in 0..MaxBytes, ct \in ContentTypes}

\* The running call settles: the whole of the fetch, taken as one step.
FetchSettles ==
  /\ fphase = "request"
  /\ \E res \in RemoteResults(fetchRef) : Settle(res, "settled")
  /\ UNCHANGED <<engineVars, diagVars, fetchRef, currentUrl, visited, redirectsLeft, total,
                 chunks, contentType, declared, requests, loopedTo, startedLog, observed, fsReads,
                 allInlined, ld, pf, tasks>>

\* The document engine; a remote fetch is one step of it.
Next ==
  \/ ReadTag \/ SrcSkip \/ SrcRemote \/ SrcAwait \/ SrcLocal
  \/ ReadSrcset \/ ItemKeep \/ ItemRemote \/ ItemAwait \/ ItemLocal \/ SrcsetDone
  \/ Emit \/ Finish
  \/ FetchSettles \/ OnBadRedirect

Spec == Init /\ [][Next]_vars

\* One remote src, and every event of its fetch.
FetchNext ==
  \/ ReadTag \/ SrcRemote \/ SrcAwait
  \/ OnRedirect \/ OnBadRedirect \/ OnHttpError \/ OnOk \/ OnData \/ OnEnd \/ OnTimeout
  \/ OnError

FetchSpec == Init /\ [][FetchNext]_vars

\* Every outcome of a fetch is one the engine's step FetchSettles draws.
FetchContract ==
  fphase = "settled" => remoteCache[fetchRef].res \in RemoteResults(fetchRef)

\* ------------------------------------------------- LocalLoader on its own

\* What fs may report of the path toDataUrlLocal is given, and the ceiling.
LdInputs ==
  { [LdIdle EXCEPT !.present = TRUE, !.kind = k, !.size = n, !.readable = r,
                   !.maxBytes = m] :
      k \in {"file", "dir", "other"}, n \in 0..(MaxBytes + 2), r \in BOOLEAN,
      m \in 0..(MaxBytes + 1) }
    \cup { [LdIdle EXCEPT !.maxBytes = m] : m \in 0..(MaxBytes + 1) }

LoaderInit == EngineInit /\ ld \in LdInputs /\ pf = PfIdle /\ tasks = <<>>

\* toDataUrlLocal(filePath, maxBytes)
LdLoad ==
  /\ ~ld.done
  /\ ld' = [ld EXCEPT
       !.done = TRUE,
       !.res = LoadFrom(ld.present, ld.kind, ld.size, ld.readable, Bytes(ld.size, 50),
                        <<"/", "f", ".", "png">>, ld.maxBytes),
       !.read = ReadsFrom(ld.present, ld.kind, ld.size, ld.maxBytes)]
  /\ UNCHANGED <<engineVars, remoteCache, diagVars, fetchVars, startedLog, observed,
                 fsReads, allInlined, pf, tasks>>

LoaderNext == LdLoad

LoaderSpec == LoaderInit /\ [][LoaderNext]_vars

\* ------------------------------------------------------------------ claims

\* The outcome in the promise of the running call.
FetchRes == remoteCache[fetchRef].res

\* The keys of the warning lines written.
LineKeys == {stderr[i].key : i \in 1..Len(stderr)}

SrcKeyOf(ref) == [site |-> "src", ref |-> ref]

ItemKeyOf(ref) == [site |-> "srcset", ref |-> ref]

\* C1: within one run toDataUrlRemote is called at most once for a raw
\* remote reference, and every occurrence of the reference awaits the same
\* outcome, a Failure included.
C1_OneTransferPerReference ==
  /\ \A i, j \in 1..Len(startedLog) : i # j => startedLog[i] # startedLog[j]
  /\ \A a, b \in observed : a.ref = b.ref => a.res = b.res

\* A tag whose src and srcset items name the same remote reference, which
\* failed: it was fetched once and every occurrence has been resolved.
C1_Witness ==
  /\ pc = "emit" /\ tag.src = Remote1
  /\ \E i \in 1..Len(authored) : authored[i].url = Remote1
  /\ startedLog = <<Remote1>>
  /\ ~remoteCache[Remote1].res.ok
  /\ SrcKeyOf(Remote1) \in failedKeys /\ ItemKeyOf(Remote1) \in failedKeys

\* C2, as claimed: a fetch whose redirect chain leads back to its start URL
\* ends with remote_redirect_loop, whatever the length of the cycle.
C2_AnyCycleIsALoop ==
  (fphase = "settled" /\ loopedTo = 0) => FetchRes.reason = "remote_redirect_loop"

\* C2, amended: a redirect to a URL already visited ends the fetch at once,
\* with remote_redirect_loop when the response came within the redirect
\* budget and with remote_too_many_redirects when the budget was used up
\* (the budget is tested first); no fetch issues more than MaxRedirects + 1
\* requests.
C2_LoopWithinBudget ==
  /\ requests <= MaxRedirects + 1
  /\ loopedTo # NoLocation =>
       /\ fphase = "settled"
       /\ ~FetchRes.ok
       /\ FetchRes.reason = IF requests <= MaxRedirects
                              THEN "remote_redirect_loop"
                              ELSE "remote_too_many_redirects"

\* A cycle of three URLs through the start URL was detected.
C2_Witness ==
  /\ fphase = "settled" /\ loopedTo = 0 /\ requests = 3
  /\ FetchRes.reason = "remote_redirect_loop"

\* C3: no failing reference aborts the run, a failing reference is left
\* untouched in the output and its failure is warned about.
C3_FailuresAreNotFatal ==
  /\ pc # "crashed"
  /\ pc = "emit" =>
       /\ SrcKeyOf(tag.src) \in failedKeys =>
            changed.src = tag.src /\ WarnKey("src:", tag.src) \in seenWarn
       /\ \A i \in 1..Len(authored) :
            ItemKeyOf(authored[i].url) \in failedKeys =>
              /\ WarnKey("srcset:", authored[i].url) \in seenWarn
              /\ \E j \in 1..Len(srcsetParts(changed.srcset)) :
                   srcsetParts(changed.srcset)[j] = itemText(authored[i])

\* C4: a 2xx response that declares more than MaxBytes fails too_large
\* before any body byte is counted or kept; a body that streams past
\* MaxBytes fails too_large and is never a Success; a body is only refused
\* when it is larger than MaxBytes, and the bytes kept never exceed it.
C4_RemoteSizeCeiling ==
  /\ fphase = "body" => ~(declared > MaxBytes)
  /\ settledBy = "too_large" =>
       /\ declared > MaxBytes /\ total = 0 /\ chunks = <<>>
       /\ FetchRes = Failure("too_large", declared)
  /\ settledBy = "too_large_stream" =>
       total > MaxBytes /\ FetchRes = Failure("too_large", NoSize)
  /\ total > MaxBytes => fphase = "settled" /\ ~FetchRes.ok
  /\ settledBy = "end" => FetchRes.ok /\ SumSeq(chunks) = total
  /\ SumSeq(chunks) <= MaxBytes

\* A body of exactly MaxBytes bytes was inlined.
C4_Witness ==
  fphase = "settled" /\ settledBy = "end" /\ total = MaxBytes /\ FetchRes.ok

\* C5: a regular file of exactly maxBytes bytes is not refused for its size
\* (it loads when it can be read); a larger one fails too_large with its
\* size, and readFileSync is not reached.
C5_LocalSizeBoundary ==
  (ld.done /\ ld.present /\ ld.kind = "file") =>
    /\ ld.size <= ld.maxBytes => (ld.res.reason # "too_large" /\ (ld.readable => ld.res.ok))
    /\ ld.size > ld.maxBytes => (ld.res = Failure("too_large", ld.size) /\ ~ld.read)

\* A file of exactly maxBytes bytes was loaded.
C5_Witness ==
  /\ ld.done /\ ld.present /\ ld.kind = "file" /\ ld.readable
  /\ ld.size = ld.maxBytes /\ ld.size > 0 /\ ld.res.ok /\ ld.read

\* C6: a fetch issues at most MaxRedirects + 1 requests; it fails with
\* too_many_redirects exactly at a redirect answering request
\* MaxRedirects + 1, so a 2xx response after up to MaxRedirects redirects
\* is read as any other.
C6_RedirectBudget ==
  /\ requests <= MaxRedirects + 1
  /\ redirectsLeft = MaxRedirects + 1 - requests \/ fphase = "off" \/ requests = 0
  /\ settledBy = "too_many_redirects" =>
       requests = MaxRedirects + 1 /\ FetchRes.reason = "remote_too_many_redirects"

\* A 2xx response after MaxRedirects redirects was inlined.
C6_Witness ==
  fphase = "settled" /\ settledBy = "end" /\ requests = MaxRedirects + 1 /\ FetchRes.ok

\* C7: while every reference read was a data: reference, nothing is
\* fetched, read, warned about or counted, and each tag is written as read.
C7_InlinedDocumentUnchanged ==
  allInlined =>
    /\ startedLog = <<>> /\ fsReads = 0 /\ stderr = <<>>
    /\ counters.replacedCount = 0 /\ counters.srcsetCount = 0
    /\ pc = "emit" => changed = tag

\* The data URL a local reference resolves to.
LocalDataUrl(ref) ==
  toDataUrlLocal((CHOOSE o \in resolveLocalPath(ref) : TRUE).path, MaxBytes).dataUrl

\* C8: the rewritten srcset is the items in order joined by ", ", an item
\* that resolved with its URL replaced and its descriptor kept, any other
\* item as written; and (first tag) one warning line per failing item.
C8_SrcsetRewriting ==
  LET Expected(it) ==
        IF isDataUrl(it.url) \/ ItemKeyOf(it.url) \in failedKeys
          THEN itemText(it)
          ELSE itemOut(IF isRemote(it.url) THEN remoteCache[it.url].res.dataUrl
                                           ELSE LocalDataUrl(it.url), it.desc)
  IN (pc = "emit" /\ authored # <<>>) =>
       /\ changed.srcset =
            JoinWith([i \in 1..Len(authored) |-> Expected(authored[i])], Spaced)
       /\ tagsDone = 0 =>
            Cardinality({i \in 1..Len(stderr) : stderr[i].key[1] = "srcset:"})
              = Cardinality({i \in 1..Len(authored) :
                               /\ ~isDataUrl(authored[i].url)
                               /\ ItemKeyOf(authored[i].url) \in failedKeys})

\* C9: a warning line is written for a key exactly on the first call of
\* warnOnce with it: no key has two lines, the keys with a line are the
\* keys warnOnce was called with, and seenWarn never loses a key.
C9_WarnOnce ==
  /\ [](/\ \A i, j \in 1..Len(stderr) : i # j => stderr[i].key # stderr[j].key
        /\ LineKeys = warnCalls
        /\ seenWarn = warnCalls)
  /\ [][seenWarn \subseteq seenWarn']_vars

\* Two items of one srcset failed with the same key: one line.
C9_Witness ==
  /\ pc = "emit"
  /\ authored = <<Item(LocalMissing, <<"1x">>), Item(LocalMissing, <<"2x">>)>>
  /\ Len(stderr) = 1 /\ stderr[1].key = WarnKey("srcset:", LocalMissing)
  /\ stderr[1].reason = "not_found"

C11_Counters ==
  [][LET srcInlined == /\ pc \in {"src", "awaitSrc"} /\ pc' = "srcset"
                       /\ changed'.src # tag.src
         srcsetEnds == pc = "item" /\ pc' = "emit"
         itemInlined == \E i \in 1..Len(out) : out[i] # srcsetParts(tag.srcset)[i]
     IN  /\ counters'.replacedCount =
              counters.replacedCount + (IF srcInlined THEN 1 ELSE 0)
         /\ counters'.srcsetCount =
              counters.srcsetCount + (IF srcsetEnds /\ itemInlined THEN 1 ELSE 0)
         /\ (srcsetEnds /\ ~itemInlined) => changed'.srcset = tag.srcset]_vars

\* ------------------------------------------------ bufferToDataUrl on its own

\* Extensions: the keys of the table, one in upper case, one unknown, and one
\* that names a property every object inherits.
MimeExts ==
  {"png", "jpg", "jpeg", "gif", "webp", "bmp", "ico", "svg", "avif", "PNG", "txt",
   "constructor"}

\* fallbackPathOrExt: a bare extension (what toDataUrlRemote passes), a file
\* path (what toDataUrlLocal passes), the path of a dot file, a path whose
\* only "." is in a directory name, a name that ends in ".", and nothing.
MimeHints ==
  {<<e>> : e \in MimeExts}
    \cup {<<"/", "d", "/", "a", ".", e>> : e \in MimeExts}
    \cup {<<"/", "d", "/", ".", e>> : e \in MimeExts}
    \cup {<<>>, <<"/", "d", ".", "png", "/", "a">>, <<"/", "a", ".">>}

\* contentTypeHeader: absent, image types, one with a parameter, one that is
\* not an image, and one with leading whitespace.
MimeHeaders ==
  {<<>>, <<"image/webp">>, <<"IMAGE/PNG">>, <<"image/png", ";", " ", "charset=x">>,
   <<"text/html">>, <<" ", "image/png">>}

MimeInit ==
  /\ EngineInit /\ ld = LdIdle /\ tasks = <<>>
  /\ pf \in {[PfIdle EXCEPT !.fn = "bufferToDataUrl", !.a = h, !.b = ct] :
               h \in MimeHints, ct \in MimeHeaders}

\* bufferToDataUrl(buf, fallbackPathOrExt, contentTypeHeader) on one byte.
MimeCall ==
  /\ pf.fn = "bufferToDataUrl" /\ ~pf.done
  /\ pf' = [pf EXCEPT !.done = TRUE, !.res = bufferToDataUrl(Bytes(1, 10), pf.a, pf.b)]
  /\ UNCHANGED <<engineVars, remoteCache, diagVars, fetchVars, startedLog, observed,
                 fsReads, allInlined, ld, tasks>>

MimeNext == MimeCall

MimeSpec == MimeInit /\ [][MimeNext]_vars

\* C12: the MIME type of a data URL is the declared Content-Type up to its
\* first ";" when that type matches image/<token>; otherwise the table's
\* entry for the extension (what follows the last "." of the hint, or the
\* hint itself when it has no "."), compared in lower case; otherwise
\* application/octet-stream.
C12_MimePrecedence ==
  (pf.fn = "bufferToDataUrl" /\ pf.done) =>
    LET hint == pf.a
        header == pf.b
        ext == Lower(IF LastIndexOf(hint, ".") = 0 THEN hint
                     ELSE SubSeq(hint, LastIndexOf(hint, ".") + 1, Len(hint)))
        mime == IF header # <<>> /\ IsImageTok(Head(header))
                  THEN Trim(SplitOn(header, ";")[1])
                ELSE IF Len(ext) = 1 /\ ext[1] \in DOMAIN extsToMime
                  THEN <<extsToMime[ext[1]]>>
                  ELSE <<"application/octet-stream">>
    IN  pf.res = <<"data:">> \o mime \o <<";", "base64", ",">> \o Base64(Bytes(1, 10))

\* ----------------------------------------------- resolveLocalPath on its own

\* Local references without "?" and "#": files that exist, names in another
\* case, percent escapes (valid, reserved, malformed), missing files, the
\* directory that cannot be listed, absolute paths and file:// URLs.
ResolveRefs ==
  { LocalOk, LocalMissing, LocalLocked,
    <<"%41", ".", "png">>,
    <<"a", "%ZZ", ".", "png">>,
    <<"a", "%2F", ".", "png">>,
    <<".", "/", "a", ".", "png">>,
    <<"images">>,
    <<"images", "/", "Logo", ".", "PNG">>,
    <<"images", "/", "logo", ".", "png">>,
    <<"images", "/", "x", ".", "png">>,
    <<"locked", "/", "Logo", ".", "PNG">>,
    <<"locked", "/", "logo", ".", "png">>,
    <<"a", ".", "png", "/", "x">>,
    <<"/", "abs", "/", "a", ".", "png">>,
    <<"file:", "//", "/", "abs", "/", "%41", ".", "png">>,
    <<"file:", "//", "/", "abs", "/", "a", "%ZZ">>,
    <<"file:", "//", "host", "/", "a", ".", "png">> }

\* Suffixes: none, a query, a fragment, both in either order, and queries
\* that hold a valid escape, a malformed escape and a "/".
ResolveSuffixes ==
  { <<>>, <<"?">>, <<"?", "v=3">>, <<"#", "frag">>, <<"?", "v=3", "#", "frag">>,
    <<"#", "frag", "?", "v=3">>, <<"?", "%20">>, <<"?", "%ZZ">>, <<"#", "%ZZ">>,
    <<"?", "a", "/", "b">> }

ResolveInit ==
  /\ EngineInit /\ ld = LdIdle /\ tasks = <<>>
  /\ pf \in {[PfIdle EXCEPT !.fn = "resolveLocalPath", !.a = p, !.b = s] :
               p \in ResolveRefs, s \in ResolveSuffixes}

\* resolveLocalPath(p + s, baseDir): res is the set of its possible outcomes.
ResolveCall ==
  /\ pf.fn = "resolveLocalPath" /\ ~pf.done
  /\ pf' = [pf EXCEPT !.done = TRUE, !.res = resolveLocalPath(pf.a \o pf.b)]
  /\ UNCHANGED <<engineVars, remoteCache, diagVars, fetchVars, startedLog, observed,
                 fsReads, allInlined, ld, tasks>>

ResolveNext == ResolveCall

ResolveSpec == ResolveInit /\ [][ResolveNext]_vars

\* C13, as claimed: a suffix that begins with "?" or "#" never changes the
\* path a local reference resolves to.
C13_SuffixIgnored ==
  (pf.fn = "resolveLocalPath" /\ pf.done /\ pf.b # <<>>) =>
    pf.res = resolveLocalPath(pf.a)

\* C13, amended: the suffix does not change the resolved path when it holds
\* no malformed percent escape, or when the reference itself holds no escape
\* that decoding would change; the reference is cut at the earlier of the
\* two delimiters.
C13_SuffixIgnoredWhenDecodable ==
  (/\ pf.fn = "resolveLocalPath" /\ pf.done /\ pf.b # <<>>
   /\ \/ \A i \in 1..Len(pf.b) : pf.b[i] # "%ZZ"
      \/ decodeMaybeURI(pf.a) = pf.a) =>
    pf.res = resolveLocalPath(pf.a)

\* %41.png?v=3#frag resolved to the file a.png, as %41.png does.
C13_Witness ==
  /\ pf.fn = "resolveLocalPath" /\ pf.done
  /\ pf.a = <<"%41", ".", "png">> /\ pf.b = <<"?", "v=3", "#", "frag">>
  /\ pf.res = {[kind |-> "path", path |-> BasePath(<< <<"a", ".", "png">> >>)]}

\* The segments of a relative local reference, as resolveLocalPath walks them.
RefSegs(rawSrc) == PathSegs(stripQueryHash(decodeMaybeURI(rawSrc)))

\* The entries whose path matches the reference segment by segment when
\* case is ignored.
CaseMatches(rawSrc) ==
  { e \in FsEntries :
      /\ Len(e.path) = Len(RefSegs(rawSrc))
      /\ \A i \in 1..Len(e.path) : Lower(e.path[i]) = Lower(RefSegs(rawSrc)[i]) }

\* C14: for a relative local reference, an entry at the exact path is
\* returned; otherwise, when entries match every segment with case ignored,
\* the path of such an entry is returned, and loading it gives what loading
\* that file gives; in every case each segment of the result is the
\* reference's segment up to case.
C14_CaseInsensitiveFallback ==
  (/\ pf.fn = "resolveLocalPath" /\ pf.done /\ pf.b = <<>>
   /\ ~startsWithFile(pf.a) /\ Head(pf.a) # "/") =>
    /\ existsSync(BasePath(RefSegs(pf.a))) =>
         pf.res = {[kind |-> "path", path |-> BasePath(RefSegs(pf.a))]}
    /\ CaseMatches(pf.a) # {} =>
         \A o \in pf.res :
           /\ o.kind = "path"
           /\ \E e \in CaseMatches(pf.a) :
                /\ o.path = BasePath(e.path)
                /\ toDataUrlLocal(o.path, MaxBytes) =
                     LoadFrom(TRUE, e.kind, e.size, e.readable, Bytes(e.size, e.seed),
                              PathText(o.path), MaxBytes)
    /\ \A o \in pf.res :
         o.kind = "path" =>
           /\ Len(o.path.segs) = Len(RefSegs(pf.a))
           /\ \A i \in 1..Len(o.path.segs) :
                Lower(o.path.segs[i]) = Lower(RefSegs(pf.a)[i])

\* ------------------------------------- the cache under interleaved requests

\* The number of resolution tasks run side by side.
MaxTasks == 2

\* The code of a remote occurrence (lines 316-318, 288-290), run by several
\* tasks at once: each task does the lookup and the insert in one step, for
\* no await stands between them, and is suspended at "await p".
TaskInit ==
  /\ EngineInit /\ ld = LdIdle /\ pf = PfIdle
  /\ tasks \in [1..MaxTasks ->
                  {[ref |-> r, at |-> "start", res |-> Failure("none", NoSize)] :
                     r \in {Remote1, Remote2}}]

\* const p = remoteCache.get(ref) || toDataUrlRemote(ref, maxBytes);
\* remoteCache.set(ref, p);
TaskLookup ==
  \E t \in DOMAIN tasks :
    /\ tasks[t].at = "start"
    /\ IF cacheGet(remoteCache, tasks[t].ref) # NoPromise
         THEN UNCHANGED <<remoteCache, startedLog>>
         ELSE /\ startedLog' = Append(startedLog, tasks[t].ref)
              /\ remoteCache' = cacheSet(remoteCache, tasks[t].ref, Pending)
    /\ tasks' = [tasks EXCEPT ![t].at = "await"]
    /\ UNCHANGED <<engineVars, diagVars, fetchVars, observed, fsReads, allInlined, ld, pf>>

\* A transfer in flight completes: its promise settles.
TransferSettles ==
  \E ref \in DOMAIN remoteCache :
    /\ ~remoteCache[ref].settled
    /\ \E res \in RemoteResults(ref) :
         remoteCache' = cacheSet(remoteCache, ref, Settled(res))
    /\ UNCHANGED <<engineVars, diagVars, fetchVars, startedLog, observed, fsReads,
                   allInlined, ld, pf, tasks>>

\* const res = await p;
TaskResume ==
  \E t \in DOMAIN tasks :
    /\ tasks[t].at = "await"
    /\ Awaited(tasks[t].ref)
    /\ tasks' = [tasks EXCEPT ![t].at = "done", ![t].res = remoteCache[tasks[t].ref].res]
    /\ observed' = observed \cup {[ref |-> tasks[t].ref, res |-> remoteCache[tasks[t].ref].res]}
    /\ UNCHANGED <<engineVars, remoteCache, diagVars, fetchVars, startedLog, fsReads,
                   allInlined, ld, pf>>

TaskNext == TaskLookup \/ TransferSettles \/ TaskResume

TaskSpec == TaskInit /\ [][TaskNext]_vars

\* C15: however the tasks interleave, no reference has two transfers
\* started, a task that asks while the transfer is in flight waits for it,
\* and all tasks of one reference receive the same result.
C15_Coalescing ==
  /\ \A i, j \in 1..Len(startedLog) : i # j => startedLog[i] # startedLog[j]
  /\ \A t \in DOMAIN tasks :
       tasks[t].at # "start" =>
         \E i \in 1..Len(startedLog) : startedLog[i] = tasks[t].ref
  /\ \A t, u \in DOMAIN tasks :
       (tasks[t].at = "done" /\ tasks[u].at = "done" /\ tasks[t].ref = tasks[u].ref) =>
         tasks[t].res = tasks[u].res
  /\ \A t \in DOMAIN tasks :
       tasks[t].at = "done" => tasks[t].res = remoteCache[tasks[t].ref].res

\* Two tasks asked for one reference and its transfer has not completed:
\* one transfer was started and both wait for it.
C15_Witness ==
  /\ tasks[1].ref = Remote1 /\ tasks[2].ref = Remote1
  /\ tasks[1].at = "await" /\ tasks[2].at = "await"
  /\ startedLog = <<Remote1>>
  /\ remoteCache[Remote1] = Pending

\* C16: resolveLocalPath returns a path for every reference, whatever the
\* filesystem answers; it never throws.
C16_ResolverNeverRaises ==
  (pf.fn = "resolveLocalPath" /\ pf.done) =>
    /\ pf.res # {}
    /\ \A o \in pf.res : o.kind = "path"

\* C17: at every moment of a fetch the body chunks kept hold at most
\* MaxBytes bytes in all, whatever the chunk sizes and whatever Content-Length
\* says, and the buffer of a successful outcome is those chunks, so it holds
\* at most MaxBytes bytes too.
C17_MemoryBound ==
  /\ SumSeq(chunks) <= MaxBytes
  /\ \A i \in 1..Len(chunks) : chunks[i] <= MaxBytes
  /\ (fphase = "settled" /\ FetchRes.ok) =>
       /\ FetchRes = RemoteSuccess(fetchRef, Bytes(SumSeq(chunks), 76), contentType)
       /\ Len(Bytes(SumSeq(chunks), 76)) <= MaxBytes

\* A response that declared one byte streamed past the ceiling: MaxBytes
\* bytes were kept when the excess was detected.
C17_Witness ==
  /\ fphase = "settled" /\ settledBy = "too_large_stream"
  /\ declared = 1 /\ total > MaxBytes
  /\ SumSeq(chunks) = MaxBytes

\* C18: a reference is handled by the first branch that applies of data,
\* remote, local.  A data: src is left as it is, with no fetch, file read,
\* warning or count; a remote src is looked up in the cache under its raw
\* text and read from no file; a local src starts no fetch; a
\* protocol-relative reference is requested as https: while the cache is
\* keyed by the raw text; and a srcset whose items are all data: references
\* is left as it is, with no fetch, file read, warning or count.
C18_Classification ==
  LET first == tagsDone = 0
      quiet == /\ startedLog = <<>> /\ fsReads = 0 /\ stderr = <<>>
               /\ counters.replacedCount = 0 /\ counters.srcsetCount = 0
  IN  /\ (pc = "srcset" /\ isDataUrl(tag.src)) =>
           changed.src = tag.src /\ (first => quiet)
      /\ pc = "awaitSrc" =>
           /\ ~isDataUrl(tag.src) /\ isRemote(tag.src)
           /\ tag.src \in DOMAIN remoteCache
      /\ (pc = "srcset" /\ first /\ tag.src # <<>> /\ ~isDataUrl(tag.src)) =>
           IF isRemote(tag.src)
             THEN startedLog = <<tag.src>> /\ fsReads = 0
             ELSE startedLog = <<>> /\ remoteCache = <<>>
      /\ DOMAIN remoteCache = {startedLog[i] : i \in 1..Len(startedLog)}
      /\ (fphase = "request" /\ requests = 1 /\ Head(fetchRef) = "//") =>
           currentUrl = <<"https:">> \o fetchRef
      /\ (/\ pc = "emit" /\ first /\ authored # <<>>
          /\ tag.src = <<>> \/ isDataUrl(tag.src)
          /\ \A i \in 1..Len(authored) : isDataUrl(authored[i].url)) =>
           quiet /\ changed = tag

\* The reason codes of the spec.
ReasonCodes ==
  {"not_found", "not_file", "too_large", "read_error", "remote_timeout",
   "remote_redirect_loop", "remote_redirect_no_location", "remote_too_many_redirects",
   "remote_http_error", "remote_error"}

\* C19: every way a remote fetch can go wrong ends in a Failure whose reason
\* is one of the ten reason codes, and no exception escapes: a final status
\* outside [200,300) gives remote_http_error, a redirect without Location
\* remote_redirect_no_location, a timeout remote_timeout, and any other
\* error, an unparsable URL included, remote_error.
C19_ClosedReasons ==
  /\ pc # "crashed"
  /\ fphase \in {"off", "request", "body", "settled"}
  /\ \A i \in 1..Len(stderr) : stderr[i].reason \in ReasonCodes
  /\ fphase = "settled" =>
       /\ ~FetchRes.ok => FetchRes.reason \in ReasonCodes
       /\ settledBy = "http_" => FetchRes = Failure("remote_http_error", NoSize)
       /\ settledBy = "redirect_without_location" =>
            FetchRes = Failure("remote_redirect_no_location", NoSize)
       /\ settledBy = "timeout" => FetchRes = Failure("remote_timeout", NoSize)
       /\ settledBy \in {"ECONNRESET", "Invalid URL"} =>
            FetchRes = Failure("remote_error", NoSize)
       /\ FetchRes.ok <=> settledBy = "end"

\* The warning keys of the current tag's references in the order the code
\* takes them up: the src, then the parts of the srcset from left to right.
KeysInOrder ==
  (IF tag.src = <<>> THEN <<>> ELSE <<WarnKey("src:", tag.src)>>)
    \o [i \in 1..Len(srcsetParts(tag.srcset)) |->
          WarnKey("srcset:", urlPartOf(srcsetParts(tag.srcset)[i]))]

====
